---- MODULE Spec2Model ----
(***************************************************************************)
(* Model of the arbitrage opportunity detector of keyrock-task             *)
(* (src/src/structs/arbitrage_finder.rs): ArbitrageFinder::new,            *)
(* ArbitrageFinder::find_opportunity and                                   *)
(* ArbitrageFinder::get_pyth_confident_95_price, over a model of the       *)
(* rust_decimal::Decimal values the code computes with.                    *)
(*                                                                         *)
(* A Decimal is a record [m, s] standing for m / 10^s, 0 <= s <= 28, as in *)
(* rust_decimal (a 96-bit mantissa and a scale of at most 28).  The model  *)
(* keeps the scale limit and the rounding a product undergoes when its     *)
(* scale would exceed 28.  Mantissas stay small in every input the model   *)
(* enumerates, so the 96-bit overflow of checked_mul/checked_add/          *)
(* checked_sub is never reached and those operations succeed here.         *)
(*                                                                         *)
(* A string is a sequence of one-character strings, so that                *)
(* Decimal::from_str is modelled by the parsing it does.                   *)
(***************************************************************************)
EXTENDS Integers, Sequences, FiniteSets, TLC

VARIABLES
    last_found,                  \* ArbitrageFinder.last_found
    latest_pyth_price,           \* content of the oracle cell the latest
                                 \* find_opportunity call was given
    latest_binance_ticker_data,  \* content of the exchange cell it was given
    ret,                         \* outcome of the latest find_opportunity call
    calls,                       \* number of find_opportunity calls so far
    hist,                        \* history of the calls: the cell contents of
                                 \* the latest emission, the passes since
                                 \* that detected nothing, the emissions
    lock,                        \* the RwLock of each cell: its free permits,
                                 \* whether a writer holds it, who waits
    det,                         \* the pass in progress: its position, the
                                 \* guards it holds, the values it copied
    band_in,                     \* Price handed to get_pyth_confident_95_price
    band_out                     \* what get_pyth_confident_95_price made of it

vars == << last_found, latest_pyth_price, latest_binance_ticker_data, ret,
           calls, hist, lock, det, band_in, band_out >>

finder_vars == << last_found, latest_pyth_price, latest_binance_ticker_data,
                  ret, calls, hist, lock, det >>

band_vars == << band_in, band_out >>

----------------------------------------------------------------------------
(* Option<T> *)

None == [some |-> FALSE]

Some(x) == [some |-> TRUE, v |-> x]

----------------------------------------------------------------------------
(* rust_decimal::Decimal *)

\* The largest scale a Decimal can have.
MAX_PRECISION == 28

Abs(n) == IF n < 0 THEN -n ELSE n

Max(a, b) == IF a >= b THEN a ELSE b

RECURSIVE Pow10(_)
Pow10(n) == IF n <= 0 THEN 1 ELSE 10 * Pow10(n - 1)

Dec(m, s) == [m |-> m, s |-> s]

\* Result<Decimal, _> / Option<Decimal>: ok = FALSE is the Err / None that
\* the code unwraps, i.e. a panic.
Ok(d) == [ok |-> TRUE, v |-> d]

Err == [ok |-> FALSE, v |-> Dec(0, 0)]

\* Decimal::new(num, scale): panics when scale exceeds MAX_PRECISION.
DecNew(num, scale) ==
    IF scale > MAX_PRECISION THEN Err ELSE Ok(Dec(num, scale))

\* The mantissa of d written with scale s >= d.s (zero stays zero).
Rescale(d, s) == IF d.m = 0 THEN 0 ELSE d.m * Pow10(s - d.s)

\* Decimal's Ord / PartialEq compare the numbers, not the representations:
\* 1.0 and 1.00 are equal.
DecCmp(a, b) ==
    LET s == Max(a.s, b.s)
        x == Rescale(a, s)
        y == Rescale(b, s)
    IN  IF x < y THEN -1 ELSE IF x > y THEN 1 ELSE 0

DecEq(a, b) == DecCmp(a, b) = 0

DecGt(a, b) == DecCmp(a, b) = 1

DecLt(a, b) == DecCmp(a, b) = -1

\* n / d for a power of ten d, rounded half to even on the magnitude: what
\* a product keeps when its scale is cut back to MAX_PRECISION.
RoundHalfEven(n, d) ==
    LET a == Abs(n)
        q == a \div d
        r == a % d
        h == d \div 2
        up == IF r > h \/ (r = h /\ q % 2 = 1) THEN q + 1 ELSE q
    IN  IF n < 0 THEN -up ELSE up

\* Decimal::checked_mul: a zero factor gives 0; the scales add, and a scale
\* above MAX_PRECISION is cut back to it by rounding the mantissa.
checked_mul(a, b) ==
    IF a.m = 0 \/ b.m = 0
    THEN Ok(Dec(0, 0))
    ELSE LET scale == a.s + b.s
             prod == a.m * b.m
         IN  IF scale > MAX_PRECISION
             THEN Ok(Dec(RoundHalfEven(prod, Pow10(scale - MAX_PRECISION)),
                         MAX_PRECISION))
             ELSE Ok(Dec(prod, scale))

\* Decimal::checked_add: both operands at the larger scale.
checked_add(a, b) ==
    LET s == Max(a.s, b.s)
    IN  Ok(Dec(Rescale(a, s) + Rescale(b, s), s))

\* Decimal::checked_sub, and the `-` operator the profit computation uses.
checked_sub(a, b) ==
    LET s == Max(a.s, b.s)
    IN  Ok(Dec(Rescale(a, s) - Rescale(b, s), s))

Digits == {"0", "1", "2", "3", "4", "5", "6", "7", "8", "9"}

DigitVal(c) ==
    CASE c = "0" -> 0 [] c = "1" -> 1 [] c = "2" -> 2 [] c = "3" -> 3
      [] c = "4" -> 4 [] c = "5" -> 5 [] c = "6" -> 6 [] c = "7" -> 7
      [] c = "8" -> 8 [] c = "9" -> 9

\* The digit loop of Decimal::from_str from position i on: m is the mantissa
\* read so far, s the number of digits read after the point, nd the number
\* of digits read.
RECURSIVE ParseDigits(_, _, _, _, _, _)
ParseDigits(str, i, m, s, point, nd) ==
    IF i > Len(str)
    THEN IF nd = 0 THEN Err ELSE Ok(Dec(m, s))
    ELSE LET c == str[i]
         IN  IF c \in Digits
             THEN ParseDigits(str, i + 1, 10 * m + DigitVal(c),
                              IF point THEN s + 1 ELSE s, point, nd + 1)
             ELSE IF c = "." /\ ~point
                  THEN ParseDigits(str, i + 1, m, s, TRUE, nd)
                  ELSE Err

\* Decimal::from_str: an optional sign, digits, at most one point; the empty
\* string and any other character are errors.
DecFromStr(str) ==
    IF Len(str) = 0
    THEN Err
    ELSE LET neg == str[1] = "-"
             start == IF str[1] \in {"-", "+"} THEN 2 ELSE 1
             r == ParseDigits(str, start, 0, 0, FALSE, 0)
         IN  IF r.ok /\ neg THEN Ok(Dec(-r.v.m, r.v.s)) ELSE r

----------------------------------------------------------------------------
(* pyth_sdk_solana::Price {price: i64, conf: u64, expo: i32}.  conf is kept  *)
(* as its top bit (hi) and its low 63 bits (lo): conf = hi * 2^63 + lo.      *)

Price(price, conf_hi, conf_lo, expo) ==
    [price |-> price, conf |-> [hi |-> conf_hi, lo |-> conf_lo], expo |-> expo]

\* u64 -> i64 by try_into: fails exactly when the top bit is set.
TryIntoI64(conf) ==
    IF conf.hi = 1 THEN [ok |-> FALSE, v |-> 0] ELSE [ok |-> TRUE, v |-> conf.lo]

\* Faulty variant of Laplace95: the 1.96 of a normal distribution.
Laplace95Mutant == Dec(196, 2)

\* Decimal::new(212, 2): the 95% factor of a Laplace distribution.
Laplace95 == Dec(212, 2)

\* pyth_price.expo.abs() as u32
Exponential(pyth_price) == Abs(pyth_price.expo)

\* Faulty variant of get_pyth_confident_95_price: the pair in the order
\* (lower, higher).
get_pyth_confident_95_price_swapped(pyth_price) ==
    LET exponential == Exponential(pyth_price)
        price == DecNew(pyth_price.price, exponential)
        conf_i64 == TryIntoI64(pyth_price.conf)
        confidence == DecNew(conf_i64.v, exponential)
        confidence_95 == checked_mul(confidence.v, Laplace95)
        higher == checked_add(price.v, confidence_95.v)
        lower == checked_sub(price.v, confidence_95.v)
    IN  IF price.ok /\ conf_i64.ok /\ confidence.ok /\ confidence_95.ok
           /\ higher.ok /\ lower.ok
        THEN [ok |-> TRUE, higher |-> lower.v, lower |-> higher.v]
        ELSE [ok |-> FALSE, higher |-> Dec(0, 0), lower |-> Dec(0, 0)]

\* get_pyth_confident_95_price: (higher, lower), or ok = FALSE when one of
\* its unwraps / Decimal::new panics.
get_pyth_confident_95_price(pyth_price) ==
    LET exponential == Exponential(pyth_price)
        price == DecNew(pyth_price.price, exponential)
        conf_i64 == TryIntoI64(pyth_price.conf)
        confidence == DecNew(conf_i64.v, exponential)
        confidence_95 == checked_mul(confidence.v, Laplace95)
        higher == checked_add(price.v, confidence_95.v)
        lower == checked_sub(price.v, confidence_95.v)
    IN  IF price.ok /\ conf_i64.ok /\ confidence.ok /\ confidence_95.ok
           /\ higher.ok /\ lower.ok
        THEN [ok |-> TRUE, higher |-> higher.v, lower |-> lower.v]
        ELSE [ok |-> FALSE, higher |-> Dec(0, 0), lower |-> Dec(0, 0)]

----------------------------------------------------------------------------
(* ArbitrageOpportunity, ArbitrageDirection *)

SellBinanceBuyDex == "SellBinanceBuyDex"

BuyBinanceSellDex == "BuyBinanceSellDex"

ArbitrageOpportunity(direction, quantity, estimated_profit, binance_price, pyth_price) ==
    [direction |-> direction, quantity |-> quantity,
     estimated_profit |-> estimated_profit, binance_price |-> binance_price,
     pyth_price |-> pyth_price]

\* #[derive(PartialEq)] on ArbitrageOpportunity: field by field, the Decimal
\* fields by Decimal's own equality.
OppEq(x, y) ==
    /\ x.direction = y.direction
    /\ DecEq(x.quantity, y.quantity)
    /\ DecEq(x.estimated_profit, y.estimated_profit)
    /\ DecEq(x.binance_price, y.binance_price)
    /\ DecEq(x.pyth_price, y.pyth_price)

\* BookTickerData: the four quote strings b, B, a, A.
BookTickerData(b, B, a, A) == [b |-> b, B |-> B, a |-> a, A |-> A]

----------------------------------------------------------------------------
(* ArbitrageFinder::find_opportunity *)

\* Faulty variant of MissingData: returns early only when both cells are
\* empty.
MissingDataMutant(pyth, ticker) == ~pyth.some /\ ~ticker.some

\* The early return: either cell holds None.
MissingData(pyth, ticker) == ~pyth.some \/ ~ticker.some

\* binance_best_bid_price.gt(&pyth_confident_95_price_higher)
SellCondition(bid, higher) == DecGt(bid, higher)

\* Faulty variant of BuyCondition: not strict.
BuyConditionMutant(ask, lower) == ~DecGt(ask, lower)

\* binance_best_ask_price.lt(&pyth_confident_95_price_lower)
BuyCondition(ask, lower) == DecLt(ask, lower)

\* Faulty variant of SellOpportunity: the price gap with the wrong sign.
SellOpportunityMutant(bid, higher, quantity) ==
    LET profit == checked_mul(checked_sub(higher, bid).v, quantity)
    IN  [ok |-> profit.ok,
         v  |-> ArbitrageOpportunity(SellBinanceBuyDex, quantity, profit.v,
                                     bid, higher)]

\* The SellBinanceBuyDex opportunity; ok = FALSE when checked_mul fails.
SellOpportunity(bid, higher, quantity) ==
    LET profit == checked_mul(checked_sub(bid, higher).v, quantity)
    IN  [ok |-> profit.ok,
         v  |-> ArbitrageOpportunity(SellBinanceBuyDex, quantity, profit.v,
                                     bid, higher)]

\* Faulty variant of BuyOpportunity: the two prices in each other's field.
BuyOpportunityMutant(ask, lower, quantity) ==
    LET profit == checked_mul(checked_sub(lower, ask).v, quantity)
    IN  [ok |-> profit.ok,
         v  |-> ArbitrageOpportunity(BuyBinanceSellDex, quantity, profit.v,
                                     lower, ask)]

\* The BuyBinanceSellDex opportunity; ok = FALSE when checked_mul fails.
BuyOpportunity(ask, lower, quantity) ==
    LET profit == checked_mul(checked_sub(lower, ask).v, quantity)
    IN  [ok |-> profit.ok,
         v  |-> ArbitrageOpportunity(BuyBinanceSellDex, quantity, profit.v,
                                     ask, lower)]

\* Faulty variant of IsDuplicate: only the direction compared.
IsDuplicateByDirection(last, opportunity, pyth_edge, binance_price) ==
    last.some /\ last.v.direction = opportunity.direction

\* Faulty variant of IsDuplicate: the two stored prices compared crosswise.
IsDuplicateMutant(last, opportunity, pyth_edge, binance_price) ==
    /\ last.some
    /\ OppEq(last.v, opportunity)
    /\ DecEq(last.v.pyth_price, binance_price)
    /\ DecEq(pyth_edge, last.v.binance_price)

\* The comparison against self.last_found.  last_found holds the opportunity
\* stored by `self.last_found = Some(opportunity)`; the pyth_price and
\* binance_price the pattern binds are the ones that opportunity was built
\* from, which it carries in its fields.
IsDuplicate(last, opportunity, pyth_edge, binance_price) ==
    /\ last.some
    /\ OppEq(last.v, opportunity)
    /\ DecEq(last.v.pyth_price, pyth_edge)
    /\ DecEq(binance_price, last.v.binance_price)

\* An outcome of a call: what it returns (kind "none", "some" or "panic",
\* and the opportunity), the value of last_found after it, and the quote
\* fields it parsed.
Outcome(kind, opp, last, parsed) ==
    [kind |-> kind, opp |-> opp, last |-> last, parsed |-> parsed]

\* Faulty variant of Panicked: the failure swallowed and None returned.
PanickedAsNone(last, parsed) == Outcome("none", None, last, parsed)

\* Faulty variant of Panicked: last_found lost with the failing pass.
PanickedClearsLast(last, parsed) == Outcome("panic", None, None, parsed)

\* An .unwrap() of an Err / a None: the pass panics; nothing was assigned.
Panicked(last, parsed) == Outcome("panic", None, last, parsed)

\* Faulty variant of Emit: a duplicate clears last_found.
EmitClearsOnDuplicate(last, opportunity, pyth_edge, binance_price, parsed) ==
    IF IsDuplicate(last, opportunity, pyth_edge, binance_price)
    THEN Outcome("none", None, None, parsed)
    ELSE Outcome("some", Some(opportunity), Some(opportunity), parsed)

\* The tail both branches share: return None for a duplicate, else store
\* the opportunity and return it.
Emit(last, opportunity, pyth_edge, binance_price, parsed) ==
    IF IsDuplicate(last, opportunity, pyth_edge, binance_price)
    THEN Outcome("none", None, last, parsed)
    ELSE Outcome("some", Some(opportunity), Some(opportunity), parsed)

\* The SellBinanceBuyDex branch, entered when SellCondition holds.
SellBranch(last, ticker, bid, higher) ==
    LET quantity == DecFromStr(ticker.B)
        opportunity == SellOpportunity(bid, higher, quantity.v)
    IN  IF ~quantity.ok \/ ~opportunity.ok
        THEN Panicked(last, {"b", "B"})
        ELSE Emit(last, opportunity.v, higher, bid, {"b", "B"})

\* Faulty variant of BuyBranch: a pass that finds nothing clears last_found.
BuyBranchClearsLast(last, ticker, lower) ==
    LET ask == DecFromStr(ticker.a)
        quantity == DecFromStr(ticker.A)
        opportunity == BuyOpportunity(ask.v, lower, quantity.v)
    IN  IF ~ask.ok
        THEN Panicked(last, {"b", "a"})
        ELSE IF ~BuyCondition(ask.v, lower)
             THEN Outcome("none", None, None, {"b", "a"})
             ELSE IF ~quantity.ok \/ ~opportunity.ok
                  THEN Panicked(last, {"b", "a", "A"})
                  ELSE Emit(last, opportunity.v, lower, ask.v,
                            {"b", "a", "A"})

\* The BuyBinanceSellDex search, reached when SellCondition does not hold.
BuyBranch(last, ticker, lower) ==
    LET ask == DecFromStr(ticker.a)
        quantity == DecFromStr(ticker.A)
        opportunity == BuyOpportunity(ask.v, lower, quantity.v)
    IN  IF ~ask.ok
        THEN Panicked(last, {"b", "a"})
        ELSE IF ~BuyCondition(ask.v, lower)
             THEN Outcome("none", None, last, {"b", "a"})
             ELSE IF ~quantity.ok \/ ~opportunity.ok
                  THEN Panicked(last, {"b", "a", "A"})
                  ELSE Emit(last, opportunity.v, lower, ask.v,
                            {"b", "a", "A"})

\* Faulty variant of Search: the buy search before the sell search.
SearchBuyFirst(last, ticker, band) ==
    LET bid == DecFromStr(ticker.b)
        ask == DecFromStr(ticker.a)
    IN  IF ask.ok /\ BuyCondition(ask.v, band.lower)
        THEN BuyBranch(last, ticker, band.lower)
        ELSE IF ~bid.ok
             THEN Panicked(last, {"b"})
             ELSE IF SellCondition(bid.v, band.higher)
                  THEN SellBranch(last, ticker, bid.v, band.higher)
                  ELSE BuyBranch(last, ticker, band.lower)

\* The two searches in the order of the code: sell first, buy only when the
\* sell condition does not hold.
Search(last, ticker, band) ==
    LET bid == DecFromStr(ticker.b)
    IN  IF ~bid.ok
        THEN Panicked(last, {"b"})
        ELSE IF SellCondition(bid.v, band.higher)
             THEN SellBranch(last, ticker, bid.v, band.higher)
             ELSE BuyBranch(last, ticker, band.lower)

\* find_opportunity on a finder whose last_found is `last`, given cells
\* that hold pyth and ticker.
find_opportunity(last, pyth, ticker) ==
    IF MissingData(pyth, ticker)
    THEN Outcome("none", None, last, {})
    ELSE IF ~pyth.some \/ ~ticker.some
         THEN Panicked(last, {})    \* .unwrap() of a None
         ELSE LET band == get_pyth_confident_95_price(pyth.v)
              IN  IF ~band.ok
                  THEN Panicked(last, {})
                  ELSE Search(last, ticker.v, band)

----------------------------------------------------------------------------
(* The inputs the model enumerates *)

\* Number of find_opportunity calls a behaviour makes.
MaxCalls == 4

\* Oracle observations: 10.00 +- 1.00 (band 7.88 .. 12.12), the same with
\* the exponent positive, 10.0 +- 0.5 (band 8.94 .. 11.06), an exponent
\* beyond the decimal scale, and a confidence above i64::MAX.
PythFeed ==
    { Price(1000, 0, 100, -2), Price(1000, 0, 100, 2), Price(100, 0, 5, -1),
      Price(1000, 0, 100, -29), Price(1000, 1, 0, -2) }

\* Exchange quotes (b, B, a, A): bid above the band; the same numbers with
\* trailing zeros; bid above the band with quantity 0; ask below the band;
\* both inside; both exactly on the edges of 7.88 .. 12.12; a crossed book
\* with the bid above and the ask below the band; an unparsable ask; and
\* BookTickerData::default(); then an unparsable bid quantity with the bid
\* above the band and with the bid inside it, and an unparsable ask
\* quantity with the ask below the band.
BinanceFeed ==
    { BookTickerData(<<"1","2",".","5">>, <<"0",".","5">>, <<"1","3">>, <<"2">>),
      BookTickerData(<<"1","2",".","5","0">>, <<"0",".","5","0">>,
                     <<"1","3",".","0">>, <<"2">>),
      BookTickerData(<<"1","2",".","5">>, <<"0">>, <<"1","3">>, <<"2">>),
      BookTickerData(<<"7",".","5">>, <<"1">>, <<"7",".","6">>, <<"2">>),
      BookTickerData(<<"1","0">>, <<"1">>, <<"1","0",".","1">>, <<"1">>),
      BookTickerData(<<"1","2",".","1","2">>, <<"1">>, <<"7",".","8","8">>,
                     <<"1">>),
      BookTickerData(<<"1","2",".","5">>, <<"3">>, <<"7",".","5">>, <<"2">>),
      BookTickerData(<<"1","2",".","5">>, <<"0",".","5">>, <<"x">>, <<"2">>),
      BookTickerData(<< >>, << >>, << >>, << >>),
      BookTickerData(<<"1","2",".","5">>, <<"x">>, <<"1","3">>, <<"2">>),
      BookTickerData(<<"1","0">>, <<"x">>, <<"1","0",".","1">>, <<"1">>),
      BookTickerData(<<"7",".","5">>, <<"1">>, <<"7",".","6">>, <<"-">>) }

OptionOf(S) == {None} \cup {Some(x) : x \in S}

NoPrice == Price(0, 0, 0, 0)

NoBand == [ok |-> FALSE, higher |-> Dec(0, 0), lower |-> Dec(0, 0)]

NotCalled == [kind |-> "init", opp |-> None, parsed |-> {}]

NoHistory == [emitted_for |-> None, gap |-> 0, emissions |-> 0]

\* The history after a call on (pyth, ticker) with outcome out: an emission
\* is remembered with its cell contents; a pass that detects nothing (an
\* empty cell, or quotes inside the band) is counted.
Record(h, pyth, ticker, out) ==
    IF out.kind = "some"
    THEN [emitted_for |-> Some([pyth |-> pyth, ticker |-> ticker]),
          gap |-> 0, emissions |-> h.emissions + 1]
    ELSE IF out.kind = "none" /\ out.parsed \subseteq {"b", "a"}
         THEN [h EXCEPT !.gap = h.gap + 1]
         ELSE h

----------------------------------------------------------------------------
(* The detector: ArbitrageFinder::new, then find_opportunity calls *)

\* The two shared cells, each an Arc<RwLock<Option<_>>>.
Cells == {"pyth", "binance"}

\* The permits of a cell's RwLock: a read guard takes one, a write guard
\* takes them all.
MaxReaders == 2

Need(w) == IF w = "pub" THEN MaxReaders ELSE 1

FreeLock == [permits |-> MaxReaders, writer |-> FALSE, queue |-> << >>]

\* w ("det" for a read, "pub" for a write) is given its permits.
Grant(l, w) == [l EXCEPT !.permits = @ - Need(w), !.writer = (w = "pub")]

\* The waiters are served first in, first out, while the permits suffice.
RECURSIVE Wake(_)
Wake(l) ==
    IF l.queue # << >> /\ l.permits >= Need(Head(l.queue))
    THEN Wake(Grant([l EXCEPT !.queue = Tail(@)], Head(l.queue)))
    ELSE l

\* read() / write(): granted at once if nobody waits and the permits
\* suffice, else queued behind the waiters.
Acquire(l, w) ==
    IF l.queue = << >> /\ l.permits >= Need(w)
    THEN Grant(l, w)
    ELSE [l EXCEPT !.queue = Append(@, w)]

\* The guard of w is dropped: its permits go back and the waiters are served.
Release(l, w) == Wake([l EXCEPT !.permits = @ + Need(w), !.writer = FALSE])

\* The detector's read guards on the cells cs are dropped.
DropGuards(lk, cs) ==
    [c \in Cells |-> IF c \in cs THEN Release(lk[c], "det") ELSE lk[c]]

Waits(w, c) == \E i \in 1..Len(lock[c].queue) : lock[c].queue[i] = w

\* No pass in progress.
IdleDet ==
    [pc |-> "idle", requested |-> {}, held |-> {}, pyth_price |-> None,
     binance_ticker_data |-> None, snapshot |-> << >>]

\* ArbitrageFinder::new(): last_found is None; no call has been made.
Init ==
    /\ last_found = None
    /\ latest_pyth_price = None
    /\ latest_binance_ticker_data = None
    /\ ret = NotCalled
    /\ calls = 0
    /\ hist = NoHistory
    /\ lock = [c \in Cells |-> FreeLock]
    /\ det = IdleDet
    /\ band_in = NoPrice
    /\ band_out = [done |-> FALSE, band |-> NoBand]

\* One find_opportunity call, on cells holding pyth and ticker that nobody
\* writes during the call.  A panic ends the detector: no call follows it.
FindOpportunity ==
    /\ calls < MaxCalls
    /\ ret.kind # "panic"
    /\ \E pyth \in OptionOf(PythFeed), ticker \in OptionOf(BinanceFeed) :
          LET out == find_opportunity(last_found, pyth, ticker)
          IN  /\ last_found' = out.last
              /\ latest_pyth_price' = pyth
              /\ latest_binance_ticker_data' = ticker
              /\ ret' = [kind |-> out.kind, opp |-> out.opp,
                         parsed |-> out.parsed]
              /\ hist' = Record(hist, pyth, ticker, out)
    /\ calls' = calls + 1
    /\ UNCHANGED << lock, det, band_vars >>

Next == FindOpportunity

Spec == Init /\ [][Next]_vars

----------------------------------------------------------------------------
(* The confidence-band calculator on its own *)

\* Oracle observations for the calculator: mantissas of both signs,
\* exponents on both sides of zero and up to and beyond the decimal scale,
\* confidences from 0 up, and one above i64::MAX.
BandPrices == {-7, 0, 3, 1000}

BandExpos == {-29, -28, -27, -26, -2, 0, 2}

BandConfs == {<<0, 0>>, <<0, 1>>, <<0, 5>>, <<0, 100>>, <<1, 0>>}

BandInit ==
    /\ last_found = None
    /\ latest_pyth_price = None
    /\ latest_binance_ticker_data = None
    /\ ret = NotCalled
    /\ calls = 0
    /\ hist = NoHistory
    /\ lock = [c \in Cells |-> FreeLock]
    /\ det = IdleDet
    /\ \E p \in BandPrices, e \in BandExpos, c \in BandConfs :
          band_in = Price(p, c[1], c[2], e)
    /\ band_out = [done |-> FALSE, band |-> NoBand]

\* A call of get_pyth_confident_95_price on band_in.
GetBand ==
    /\ ~band_out.done
    /\ band_out' = [done |-> TRUE, band |-> get_pyth_confident_95_price(band_in)]
    /\ UNCHANGED << band_in, finder_vars >>

BandNext == GetBand

SpecBand == BandInit /\ [][BandNext]_vars

----------------------------------------------------------------------------
(* The detector among the two feed-publishers: the steps of one            *)
(* find_opportunity pass on cells that the publishers overwrite.           *)

\* What the publishers write: two oracle observations and two quotes, all
\* well-formed, one of the quotes above both bands.
LockPythFeed == {Price(1000, 0, 100, -2), Price(100, 0, 5, -1)}

LockBinanceFeed ==
    { BookTickerData(<<"1","2",".","5">>, <<"0",".","5">>, <<"1","3">>, <<"2">>),
      BookTickerData(<<"1","0">>, <<"1">>, <<"1","0",".","1">>, <<"1">>) }

FeedOf(c) == IF c = "pyth" THEN LockPythFeed ELSE LockBinanceFeed

\* What last_found can hold with these feeds: nothing, or the candidate of
\* an observation and a quote.
LockLastFound ==
    {None} \cup { find_opportunity(None, Some(p), Some(t)).last :
                     p \in LockPythFeed, t \in LockBinanceFeed }

\* find_opportunity past its locking, tabulated for these feeds.
PassOutcome ==
    [ l \in LockLastFound, p \in OptionOf(LockPythFeed),
      t \in OptionOf(LockBinanceFeed) |-> find_opportunity(l, p, t) ]

\* The read guards the pass still holds after the emptiness check, after
\* the copy of the oracle observation and drop of its guard, after the
\* clone of the ticker and drop of its guard, and after it returned.
HeldAfterCheck == Cells

\* Faulty variant of HeldAfterPythCopy: both guards dropped with the first.
HeldAfterPythCopyNone == {}

HeldAfterPythCopy == {"binance"}

\* Faulty variant of HeldAfterTickerCopy: the ticker's guard kept during
\* the computation.
HeldAfterTickerCopyKept == {"binance"}

HeldAfterTickerCopy == {}

\* Faulty variants of HeldAfterReturn: a guard is never dropped.
HeldAfterReturnLeaksPyth == {"pyth"}

HeldAfterReturnLeaksBinance == {"binance"}

HeldAfterReturn == {}

\* The pass keeps the guards in keep of those it holds and drops the others.
Keep(keep) == det.held \cap keep

Dropped(keep) == DropGuards(lock, det.held \ keep)

LockInit ==
    /\ last_found = None
    /\ latest_pyth_price = None
    /\ latest_binance_ticker_data = None
    /\ ret = NotCalled
    /\ calls = 0
    /\ hist = NoHistory
    /\ lock = [c \in Cells |-> FreeLock]
    /\ det = IdleDet
    /\ band_in = NoPrice
    /\ band_out = [done |-> FALSE, band |-> NoBand]

\* find_opportunity is called.
D_Start ==
    /\ det.pc = "idle"
    /\ det' = [IdleDet EXCEPT !.pc = "join"]
    /\ UNCHANGED << last_found, latest_pyth_price, latest_binance_ticker_data,
                    ret, calls, hist, lock, band_vars >>

\* join! polls the read() of cell c for the first time.
D_Request(c) ==
    /\ det.pc = "join"
    /\ c \notin det.requested
    /\ lock' = [lock EXCEPT ![c] = Acquire(@, "det")]
    /\ det' = [det EXCEPT !.requested = @ \cup {c}]
    /\ UNCHANGED << last_found, latest_pyth_price, latest_binance_ticker_data,
                    ret, calls, hist, band_vars >>

\* The read guard of cell c has been granted to the pass.
Granted(c) == c \in det.requested /\ ~Waits("det", c)

\* join! has both guards; the emptiness check, and the early return, which
\* drops both guards.  snapshot notes the content of the two cells at this
\* instant.
D_Check ==
    /\ det.pc = "join"
    /\ \A c \in Cells : Granted(c)
    /\ IF MissingData(latest_pyth_price, latest_binance_ticker_data)
       THEN /\ LET out == PassOutcome[last_found, latest_pyth_price,
                                          latest_binance_ticker_data]
               IN  /\ ret' = [kind |-> out.kind, opp |-> out.opp,
                              parsed |-> out.parsed]
                   /\ last_found' = out.last
            /\ lock' = DropGuards(lock, Cells \ HeldAfterReturn)
            /\ det' = IdleDet
       ELSE /\ det' = [det EXCEPT
                         !.pc = "checked",
                         !.held = HeldAfterCheck,
                         !.snapshot = << latest_pyth_price,
                                         latest_binance_ticker_data >>]
            /\ lock' = DropGuards(lock, Cells \ HeldAfterCheck)
            /\ UNCHANGED << ret, last_found >>
    /\ UNCHANGED << latest_pyth_price, latest_binance_ticker_data, calls,
                    hist, band_vars >>

\* The oracle observation is copied out of its cell and its guard dropped.
D_CopyPyth ==
    /\ det.pc = "checked"
    /\ det' = [det EXCEPT !.pc = "copied_pyth",
                          !.pyth_price = latest_pyth_price,
                          !.held = Keep(HeldAfterPythCopy)]
    /\ lock' = Dropped(HeldAfterPythCopy)
    /\ UNCHANGED << last_found, latest_pyth_price, latest_binance_ticker_data,
                    ret, calls, hist, band_vars >>

\* The ticker is cloned out of its cell and its guard dropped.
D_CopyTicker ==
    /\ det.pc = "copied_pyth"
    /\ det' = [det EXCEPT !.pc = "compute",
                          !.binance_ticker_data = latest_binance_ticker_data,
                          !.held = Keep(HeldAfterTickerCopy)]
    /\ lock' = Dropped(HeldAfterTickerCopy)
    /\ UNCHANGED << last_found, latest_pyth_price, latest_binance_ticker_data,
                    ret, calls, hist, band_vars >>

\* The band, the parsing, the conditions, the dedup comparison and the
\* assignment to last_found, on the copies; the pass returns.
D_Compute ==
    /\ det.pc = "compute"
    /\ LET out == PassOutcome[last_found, det.pyth_price,
                               det.binance_ticker_data]
       IN  /\ ret' = [kind |-> out.kind, opp |-> out.opp,
                      parsed |-> out.parsed]
           /\ last_found' = out.last
    /\ lock' = Dropped(HeldAfterReturn)
    /\ det' = IdleDet
    /\ UNCHANGED << latest_pyth_price, latest_binance_ticker_data, calls,
                    hist, band_vars >>

\* The steps of a pass after its call.
D_Step ==
    \/ \E c \in Cells : D_Request(c)
    \/ D_Check
    \/ D_CopyPyth
    \/ D_CopyTicker
    \/ D_Compute

\* The publisher of cell c asks for write access.
P_Request(c) ==
    /\ ~lock[c].writer
    /\ ~Waits("pub", c)
    /\ lock' = [lock EXCEPT ![c] = Acquire(@, "pub")]
    /\ UNCHANGED << last_found, latest_pyth_price, latest_binance_ticker_data,
                    ret, calls, hist, det, band_vars >>

\* The publisher of cell c overwrites the cell with its newest observation
\* and gives up write access.
P_Write(c) ==
    /\ lock[c].writer
    /\ \E v \in FeedOf(c) :
          /\ latest_pyth_price' =
                IF c = "pyth" THEN Some(v) ELSE latest_pyth_price
          /\ latest_binance_ticker_data' =
                IF c = "binance" THEN Some(v) ELSE latest_binance_ticker_data
    /\ lock' = [lock EXCEPT ![c] = Release(@, "pub")]
    /\ UNCHANGED << last_found, ret, calls, hist, det, band_vars >>

LockNext ==
    \/ D_Start
    \/ D_Step
    \/ \E c \in Cells : P_Request(c)
    \/ \E c \in Cells : P_Write(c)

SpecLock == LockInit /\ [][LockNext]_vars

\* Fair scheduling: a pass that can take a step takes one, and a publisher
\* that holds write access writes and gives it up.
FairSpecLock ==
    /\ SpecLock
    /\ WF_vars(D_Step)
    /\ \A c \in Cells : WF_vars(P_Write(c))

----------------------------------------------------------------------------
(* Exact decimal arithmetic for stating the properties: Q(n, s) is the     *)
(* number n / 10^s, s any integer.                                         *)

Q(n, s) == [n |-> n, s |-> s]

Scaled(n, k) == IF n = 0 THEN 0 ELSE n * Pow10(k)

\* Both numerators over the common denominator 10^Max(a.s, b.s).
QNum(a, b) == Scaled(a.n, Max(a.s, b.s) - a.s)

QEq(a, b) == QNum(a, b) = QNum(b, a)

QLt(a, b) == QNum(a, b) < QNum(b, a)

QLe(a, b) == QNum(a, b) <= QNum(b, a)

QSub(a, b) == Q(QNum(a, b) - QNum(b, a), Max(a.s, b.s))

QMul(a, b) == Q(a.n * b.n, a.s + b.s)

\* The number a Decimal stands for.
QOf(d) == Q(d.m, d.s)

\* price + 2.12 * conf and price - 2.12 * conf, for price = mantissa *
\* 10^-|expo| and conf = confidence * 10^-|expo|.
UpperOf(p) == Q(100 * p.price + 212 * p.conf.lo, Abs(p.expo) + 2)

LowerOf(p) == Q(100 * p.price - 212 * p.conf.lo, Abs(p.expo) + 2)

\* The observation has a band: the confidence fits an i64 and the scale a
\* Decimal.
HasBand(p) == p.conf.hi = 0 /\ Abs(p.expo) <= MAX_PRECISION

Parses(str) == DecFromStr(str).ok

QStr(str) == QOf(DecFromStr(str).v)

\* The two directional conditions on an (observation, quote) pair.
SellHolds(p, t) ==
    HasBand(p) /\ Parses(t.b) /\ QLt(UpperOf(p), QStr(t.b))

BuyHolds(p, t) ==
    HasBand(p) /\ Parses(t.a) /\ QLt(QStr(t.a), LowerOf(p))

\* o is the sell candidate / the buy candidate of (p, t).
IsSellCandidate(o, p, t) ==
    /\ o.direction = SellBinanceBuyDex
    /\ QEq(QOf(o.quantity), QStr(t.B))
    /\ QEq(QOf(o.estimated_profit),
           QMul(QSub(QStr(t.b), UpperOf(p)), QStr(t.B)))
    /\ QEq(QOf(o.binance_price), QStr(t.b))
    /\ QEq(QOf(o.pyth_price), UpperOf(p))

IsBuyCandidate(o, p, t) ==
    /\ o.direction = BuyBinanceSellDex
    /\ QEq(QOf(o.quantity), QStr(t.A))
    /\ QEq(QOf(o.estimated_profit),
           QMul(QSub(LowerOf(p), QStr(t.a)), QStr(t.A)))
    /\ QEq(QOf(o.binance_price), QStr(t.a))
    /\ QEq(QOf(o.pyth_price), LowerOf(p))

\* A pass on (p, t) that builds the sell candidate / the buy candidate.
BuildsSell(p, t) == SellHolds(p, t) /\ Parses(t.B)

BuildsBuy(p, t) ==
    /\ HasBand(p) /\ Parses(t.b) /\ ~SellHolds(p, t)
    /\ BuyHolds(p, t) /\ Parses(t.A)

\* o is the candidate a pass on (p, t) builds.
IsCandidate(o, p, t) ==
    \/ BuildsSell(p, t) /\ IsSellCandidate(o, p, t)
    \/ BuildsBuy(p, t) /\ IsBuyCandidate(o, p, t)

\* This step is a find_opportunity call; the cells it is given are
\* latest_pyth_price' and latest_binance_ticker_data'.
CallStep == calls' = calls + 1

BothSome == latest_pyth_price.some /\ latest_binance_ticker_data.some

\* The candidate is returned and stored, unless last_found already holds
\* it, and then none is returned and last_found stays.
ReturnedUnlessLast(isCand(_)) ==
    IF last_found.some /\ isCand(last_found.v)
    THEN ret'.kind = "none" /\ last_found' = last_found
    ELSE /\ ret'.kind = "some"
         /\ isCand(ret'.opp.v)
         /\ last_found' = ret'.opp

----------------------------------------------------------------------------
\* C1 (as claimed): whatever the detector's state, of two successive calls
\* on unchanged cell contents for which a directional condition holds, the
\* first returns an opportunity and the second, and every further one,
\* none.  The first call of such a run is one whose cell contents differ
\* from those of the call before it, or the first call of all.
C1_FirstAlwaysEmits ==
    [][(CallStep /\ BothSome'
        /\ (BuildsSell(latest_pyth_price'.v, latest_binance_ticker_data'.v)
            \/ BuildsBuy(latest_pyth_price'.v, latest_binance_ticker_data'.v)))
       => IF calls > 0 /\ latest_pyth_price' = latest_pyth_price
             /\ latest_binance_ticker_data' = latest_binance_ticker_data
          THEN ret'.kind = "none"
          ELSE ret'.kind = "some"]_vars

\* C1 (amended): a call on cell contents for which a directional condition
\* holds returns an opportunity exactly when its candidate differs from
\* last_found, so always on a detector that has emitted nothing; and every
\* call that follows a call on the same cell contents returns none.
C1_Dedup ==
    [][(CallStep /\ BothSome'
        /\ (BuildsSell(latest_pyth_price'.v, latest_binance_ticker_data'.v)
            \/ BuildsBuy(latest_pyth_price'.v, latest_binance_ticker_data'.v)))
       => LET p == latest_pyth_price'.v
              t == latest_binance_ticker_data'.v
              dup == last_found.some /\ IsCandidate(last_found.v, p, t)
          IN  /\ ret'.kind = (IF dup THEN "none" ELSE "some")
              /\ (~last_found.some => ret'.kind = "some")
              /\ (calls > 0 /\ latest_pyth_price' = latest_pyth_price
                  /\ latest_binance_ticker_data' = latest_binance_ticker_data)
                 => ret'.kind = "none"]_vars

\* The second of two calls has returned none on cell contents for which a
\* directional condition holds: the first had emitted the candidate.
C1_Witness ==
    /\ calls = 2 /\ BothSome /\ ret.kind = "none" /\ last_found.some
    /\ IsCandidate(last_found.v, latest_pyth_price.v,
                   latest_binance_ticker_data.v)

\* C2: a call given an empty oracle cell, an empty exchange cell or both
\* returns none and leaves last_found as it was, whatever the other cell
\* holds and whatever last_found is.
C2_MissingData ==
    [][(CallStep /\ ~BothSome')
       => ret'.kind = "none" /\ last_found' = last_found]_vars

\* A call with exactly one cell empty returned none on a detector that
\* holds an opportunity.
C2_Witness ==
    /\ calls > 0 /\ ret.kind = "none" /\ last_found.some
    /\ ~latest_pyth_price.some /\ latest_binance_ticker_data.some

\* C3: when both cells hold observations and best bid > upper, the
\* candidate is SellBinanceBuyDex with quantity = best bid quantity,
\* estimated_profit = (best bid - upper) * quantity, binance_price = best
\* bid and pyth_price = upper, and the call returns it unless last_found
\* already equals it.
C3_SellCandidate ==
    [][(CallStep /\ BothSome'
        /\ BuildsSell(latest_pyth_price'.v, latest_binance_ticker_data'.v))
       => LET p == latest_pyth_price'.v
              t == latest_binance_ticker_data'.v
              isCand(o) == IsSellCandidate(o, p, t)
          IN  ReturnedUnlessLast(isCand)]_vars

\* A call returned a sell opportunity with a positive profit.
C3_Witness ==
    /\ calls > 0 /\ BothSome /\ ret.kind = "some"
    /\ BuildsSell(latest_pyth_price.v, latest_binance_ticker_data.v)
    /\ ret.opp.v.direction = SellBinanceBuyDex
    /\ ret.opp.v.estimated_profit.m > 0

\* C4: when both cells hold observations, best bid <= upper and best ask <
\* lower, the candidate is BuyBinanceSellDex with quantity = best ask
\* quantity, estimated_profit = (lower - best ask) * quantity,
\* binance_price = best ask and pyth_price = lower, and the call returns it
\* unless last_found already equals it.
C4_BuyCandidate ==
    [][(CallStep /\ BothSome'
        /\ BuildsBuy(latest_pyth_price'.v, latest_binance_ticker_data'.v))
       => LET p == latest_pyth_price'.v
              t == latest_binance_ticker_data'.v
              isCand(o) == IsBuyCandidate(o, p, t)
          IN  ReturnedUnlessLast(isCand)]_vars

\* A call returned a buy opportunity with a positive profit.
C4_Witness ==
    /\ calls > 0 /\ BothSome /\ ret.kind = "some"
    /\ BuildsBuy(latest_pyth_price.v, latest_binance_ticker_data.v)
    /\ ret.opp.v.direction = BuyBinanceSellDex
    /\ ret.opp.v.estimated_profit.m > 0

\* C5: when both cells hold observations, best bid <= upper and best ask >=
\* lower, the call returns none and last_found is what it was.
C5_NoOpportunity ==
    [][(CallStep /\ BothSome'
        /\ HasBand(latest_pyth_price'.v)
        /\ Parses(latest_binance_ticker_data'.v.b)
        /\ Parses(latest_binance_ticker_data'.v.a)
        /\ QLe(QStr(latest_binance_ticker_data'.v.b),
               UpperOf(latest_pyth_price'.v))
        /\ QLe(LowerOf(latest_pyth_price'.v),
               QStr(latest_binance_ticker_data'.v.a)))
       => ret'.kind = "none" /\ last_found' = last_found]_vars

\* A call on quotes that touch both edges of the band returned none on a
\* detector that holds an opportunity.
C5_Witness ==
    /\ calls > 0 /\ BothSome /\ ret.kind = "none" /\ last_found.some
    /\ HasBand(latest_pyth_price.v)
    /\ Parses(latest_binance_ticker_data.v.b)
    /\ Parses(latest_binance_ticker_data.v.a)
    /\ QEq(QStr(latest_binance_ticker_data.v.b), UpperOf(latest_pyth_price.v))
    /\ QEq(QStr(latest_binance_ticker_data.v.a), LowerOf(latest_pyth_price.v))

----------------------------------------------------------------------------
\* The band of the calculator's latest call.
Higher == QOf(band_out.band.higher)

Lower == QOf(band_out.band.lower)

BandReturned == band_out.done /\ band_out.band.ok

\* The largest |exponent| for which conf * 2.12 keeps all its digits.
MaxExactExpo == MAX_PRECISION - Laplace95.s

\* The band lies around price = mantissa * 10^-|exponent|: upper >= lower
\* and upper - price = price - lower.
Symmetric ==
    /\ QLe(Lower, Higher)
    /\ QEq(QSub(Higher, Q(band_in.price, Abs(band_in.expo))),
           QSub(Q(band_in.price, Abs(band_in.expo)), Lower))

\* C6: for every observation with confidence >= 0, positive and zero
\* exponents included, upper - lower = confidence * 10^exponent * 4.24.
\* Stated for the exponents of magnitude at most 26, whose band the
\* calculator computes without rounding.
C6_BandWidth ==
    (BandReturned /\ Abs(band_in.expo) <= MaxExactExpo)
    => QEq(QSub(Higher, Lower), Q(424 * band_in.conf.lo, 2 - band_in.expo))

\* C7 (as claimed): for every observation the calculator returns upper =
\* price + 2.12 * conf and lower = price - 2.12 * conf without rounding,
\* with price = mantissa * 10^-|exponent| and conf = confidence *
\* 10^-|exponent|; so upper >= lower, symmetric around price.
C7_BandExact ==
    BandReturned
    => /\ QEq(Higher, UpperOf(band_in))
       /\ QEq(Lower, LowerOf(band_in))
       /\ Symmetric

\* C7 (amended): the same for |exponent| <= 26; for every observation the
\* calculator returns a band for, upper >= lower, symmetric around price.
C7_BandExactInScale ==
    BandReturned
    => /\ Abs(band_in.expo) <= MaxExactExpo
          => QEq(Higher, UpperOf(band_in)) /\ QEq(Lower, LowerOf(band_in))
       /\ Symmetric

\* The calculator returned the band of an observation with the largest
\* exact scale, a non-zero price and a confidence whose 2.12-fold has two
\* more digits than the scale.
C7_Witness ==
    /\ BandReturned
    /\ Abs(band_in.expo) = MaxExactExpo
    /\ band_in.price # 0
    /\ band_in.conf.lo = 1
    /\ QEq(QSub(Higher, Lower), Q(424, MAX_PRECISION))

----------------------------------------------------------------------------
\* The two conditions as the code evaluates them on the cells of the
\* latest call.
CodeSell ==
    LET band == get_pyth_confident_95_price(latest_pyth_price.v)
        bid == DecFromStr(latest_binance_ticker_data.v.b)
    IN  band.ok /\ bid.ok /\ SellCondition(bid.v, band.higher)

CodeBuy ==
    LET band == get_pyth_confident_95_price(latest_pyth_price.v)
        ask == DecFromStr(latest_binance_ticker_data.v.a)
    IN  band.ok /\ ask.ok /\ BuyCondition(ask.v, band.lower)

\* best bid <= best ask: the order book is not crossed.
SaneBook ==
    /\ Parses(latest_binance_ticker_data.v.b)
    /\ Parses(latest_binance_ticker_data.v.a)
    /\ QLe(QStr(latest_binance_ticker_data.v.b),
           QStr(latest_binance_ticker_data.v.a))

\* C8 (as claimed): for any input pair at most one of best bid > upper and
\* best ask < lower holds.
C8_AtMostOne == (calls > 0 /\ BothSome) => ~(CodeSell /\ CodeBuy)

\* C8 (amended): for any input pair whose best bid is at most its best ask,
\* at most one of best bid > upper and best ask < lower holds.
C8_AtMostOneSaneBook ==
    (calls > 0 /\ BothSome /\ SaneBook) => ~(CodeSell /\ CodeBuy)

\* A call was given an uncrossed book for which one of the conditions
\* holds.
C8_Witness ==
    /\ calls > 0 /\ BothSome /\ SaneBook
    /\ CodeBuy /\ ~CodeSell /\ ret.kind = "some"

\* C9: in a pass where best bid > upper and best ask < lower both hold, the
\* candidate is the sell one built from the bid side, the ask side is not
\* parsed, and no BuyBinanceSellDex opportunity is returned or stored.
C9_SellFirst ==
    [][(CallStep /\ BothSome'
        /\ BuildsSell(latest_pyth_price'.v, latest_binance_ticker_data'.v)
        /\ BuyHolds(latest_pyth_price'.v, latest_binance_ticker_data'.v))
       => LET p == latest_pyth_price'.v
              t == latest_binance_ticker_data'.v
              isCand(o) == IsSellCandidate(o, p, t)
          IN  /\ ReturnedUnlessLast(isCand)
              /\ ret'.parsed = {"b", "B"}
              /\ ~(ret'.opp.some /\ ret'.opp.v.direction = BuyBinanceSellDex)
              /\ last_found' # last_found
                 => last_found'.v.direction = SellBinanceBuyDex]_vars

\* A call on a crossed book with both conditions holding returned the sell
\* opportunity without parsing the ask side.
C9_Witness ==
    /\ calls > 0 /\ BothSome /\ ret.kind = "some"
    /\ BuildsSell(latest_pyth_price.v, latest_binance_ticker_data.v)
    /\ BuyHolds(latest_pyth_price.v, latest_binance_ticker_data.v)
    /\ ret.opp.v.direction = SellBinanceBuyDex
    /\ ret.parsed = {"b", "B"}

\* C10: every opportunity that exists, returned or held in last_found, has
\* quantity > 0 (the quote quantities are all >= 0).
C10_QuantityPositive ==
    /\ ret.opp.some => ret.opp.v.quantity.m > 0
    /\ last_found.some => last_found.v.quantity.m > 0

----------------------------------------------------------------------------
\* Some part of the input is fatal to a pass that meets it: the observation
\* has no band, or one of the four quote strings is no decimal.
Fatal(p, t) ==
    \/ ~HasBand(p)
    \/ ~Parses(t.b) \/ ~Parses(t.B) \/ ~Parses(t.a) \/ ~Parses(t.A)

\* The pass on (p, t) meets a fatal part: it computes the band and parses
\* b; B only when the sell condition holds; a only when it does not; A only
\* when the buy condition then holds.
FatalReached(p, t) ==
    \/ ~HasBand(p)
    \/ ~Parses(t.b)
    \/ SellHolds(p, t) /\ ~Parses(t.B)
    \/ /\ ~SellHolds(p, t)
       /\ ~Parses(t.a) \/ (BuyHolds(p, t) /\ ~Parses(t.A))

C14_NoReturnToIdle ==
    /\ ~last_found.some
    /\ [][last_found.some => last_found'.some]_vars

\* The last call allowed was given an empty exchange cell, before it an
\* opportunity was emitted, and last_found still holds one.
C14_Witness ==
    /\ calls = MaxCalls /\ hist.emissions > 0 /\ last_found.some
    /\ ret.kind = "none"
    /\ latest_pyth_price.some /\ ~latest_binance_ticker_data.some

\* C15: once an opportunity was emitted for cell contents X, a call on X
\* returns none, whatever number of passes that detected nothing (an empty
\* cell, quotes inside the band) came in between; last_found still holds
\* the opportunity.
C15_SuppressedAfterGap ==
    [][(CallStep /\ hist.emitted_for.some
        /\ latest_pyth_price' = hist.emitted_for.v.pyth
        /\ latest_binance_ticker_data' = hist.emitted_for.v.ticker)
       => /\ ret'.kind = "none"
          /\ last_found' = last_found
          /\ last_found.some
          /\ IsCandidate(last_found.v, latest_pyth_price'.v,
                         latest_binance_ticker_data'.v)]_vars

\* A call on the cell contents of the latest emission returned none after
\* two passes that detected nothing.
C15_Witness ==
    /\ hist.emitted_for.some /\ hist.gap >= 2 /\ ret.kind = "none"
    /\ latest_pyth_price = hist.emitted_for.v.pyth
    /\ latest_binance_ticker_data = hist.emitted_for.v.ticker

\* The two opportunities are equal in direction, quantity, profit and both
\* prices.
SameOpportunity(x, y) ==
    /\ x.direction = y.direction
    /\ QEq(QOf(x.quantity), QOf(y.quantity))
    /\ QEq(QOf(x.estimated_profit), QOf(y.estimated_profit))
    /\ QEq(QOf(x.binance_price), QOf(y.binance_price))
    /\ QEq(QOf(x.pyth_price), QOf(y.pyth_price))

\* C16: a call returns an opportunity exactly when a directional condition
\* holds and the candidate differs from last_found; last_found is then the
\* returned opportunity, which differs from the one emitted before it; and
\* a call that returns none leaves last_found as it was.
C16_EmissionAndState ==
    [][CallStep
       => LET p == latest_pyth_price'.v
              t == latest_binance_ticker_data'.v
              builds == BothSome' /\ (BuildsSell(p, t) \/ BuildsBuy(p, t))
              dup == last_found.some /\ IsCandidate(last_found.v, p, t)
          IN  /\ ret'.kind = "some" <=> builds /\ ~dup
              /\ ret'.kind = "some"
                 => /\ ret'.opp.some
                    /\ last_found' = ret'.opp
                    /\ IsCandidate(ret'.opp.v, p, t)
                    /\ ~(last_found.some
                         /\ SameOpportunity(last_found.v, ret'.opp.v))
              /\ ret'.kind = "none"
                 => ~ret'.opp.some /\ last_found' = last_found]_vars

\* Two calls, and each emitted an opportunity: the second, now in
\* last_found, differs from the first.
C16_Witness ==
    /\ hist.emissions >= 2 /\ ret.kind = "some" /\ last_found = ret.opp
    /\ hist.gap = 0 /\ calls = 2

\* C19: a pass that ends in a fatal condition leaves last_found as it was.
C19_UnchangedOnFailure ==
    [][(CallStep /\ ret'.kind = "panic") => last_found' = last_found]_vars

\* A call has panicked on a detector that holds an opportunity.
C19_Witness ==
    /\ calls > 1 /\ ret.kind = "panic" /\ last_found.some
    /\ hist.emissions > 0

----------------------------------------------------------------------------
\* The read guards out on cell c.
ReadsOut(c) == IF lock[c].writer THEN 0 ELSE MaxReaders - lock[c].permits

\* C12: the oracle cell's read guard is released once its value is copied,
\* and no read guard is out on either cell when the computation starts,
\* while it runs, or after the pass has returned (the early return too).
C12_LockDiscipline ==
    /\ det.pc = "copied_pyth" => ReadsOut("pyth") = 0
    /\ det.pc \in {"compute", "idle"} => \A c \in Cells : ReadsOut(c) = 0

\* The pass is about to compute on its copies while both publishers hold
\* write access to their cells.
C12_Witness ==
    /\ det.pc = "compute" /\ det.pyth_price.some
    /\ \A c \in Cells : lock[c].writer

\* C13: under fair scheduling, a publisher that waits for write access to
\* its cell is eventually granted it.
C13_PublisherGranted ==
    \A c \in Cells : Waits("pub", c) ~> lock[c].writer

\* The exchange publisher waits for the read guard the joining pass holds,
\* while the pass waits behind the oracle publisher for the other guard.
C13_Witness ==
    /\ det.pc = "join"
    /\ Waits("pub", "binance") /\ ~lock["binance"].writer
    /\ Waits("det", "pyth") /\ lock["pyth"].writer

\* C17: under fair scheduling, a pass that has started eventually returns.
C17_PassReturns == (det.pc # "idle") ~> (det.pc = "idle")

\* The joining pass waits behind both publishers' write access.
C17_Witness ==
    /\ det.pc = "join"
    /\ \A c \in Cells : Waits("det", c) /\ lock[c].writer

\* C18: the pair of values a pass computes on was the content of the two
\* cells at one instant of the pass: the instant of its emptiness check.
C18_ConsistentSnapshot ==
    det.pc = "compute"
       => /\ det.pyth_price.some /\ det.binance_ticker_data.some
          /\ << det.pyth_price, det.binance_ticker_data >> = det.snapshot

\* The pass is about to compute on a pair that both cells have left since.
C18_Witness ==
    /\ det.pc = "compute"
    /\ latest_pyth_price # det.pyth_price
    /\ latest_binance_ticker_data # det.binance_ticker_data
    /\ << det.pyth_price, det.binance_ticker_data >> = det.snapshot

====
